---------------------------- MODULE Spec2Model ----------------------------
(***************************************************************************)
(* A model of the COVID-19 dashboard of src/app.py: the loader, the        *)
(* aggregations and rankings behind the charts, and the render cycle of    *)
(* main() that wires them together.                                        *)
(*                                                                         *)
(* A DataFrame is the sequence of its rows, in index order; a row is a     *)
(* record of its columns.  Two specifications are given: Spec is one       *)
(* render cycle of main() over a raw payload, SpecCalls is one call of one *)
(* of the module's functions on a loaded Dataset with arbitrary arguments. *)
(* st.cache_data only spares a repeated call its work: within one cycle    *)
(* each cached function is called once and runs its body.                  *)
(***************************************************************************)
EXTENDS Integers, Sequences, FiniteSets, TLC

VARIABLES
    pc,                 \* position of main() in its render cycle
    raw,                \* what pd.read_csv(url) meets at the data source
    df,                 \* main's df: the value load_data() returned
    st_error,           \* messages shown with st.error, in order
    uncaught,           \* the exception that ended main(), "" when none
    executed,           \* the steps of main() that have run, in order
    date_range,         \* the tuple st.sidebar.date_input returned
    df_filtered,        \* main's df_filtered
    selected_countries, \* the list st.sidebar.multiselect returned
    global_stats,       \* main's global_stats
    global_daily,       \* the table behind the global trend figure
    country_data,       \* the table behind the comparison figure
    top_cases,          \* the table behind the top-cases figure
    top_deaths,         \* the table behind the top-deaths figure
    vacc_fig,           \* what create_vaccination_chart returned
    top_cfr,            \* the table behind the CFR figure
    csv,                \* the text offered by the download button
    call,               \* SpecCalls: the function called and its arguments
    result              \* SpecCalls: how the call ended

vars == <<pc, raw, df, st_error, uncaught, executed, date_range, df_filtered,
          selected_countries, global_stats, global_daily, country_data,
          top_cases, top_deaths, vacc_fig, top_cfr, csv, call, result>>

(***************************************************************************)
(* Bounds of the model.                                                    *)
(***************************************************************************)
MaxRows == 3    \* rows of a payload or Dataset
MaxTopN == 3    \* top_n of a ranking call in SpecCalls

(***************************************************************************)
(* Values.                                                                 *)
(***************************************************************************)
\* A missing numeric cell (pandas' NaN); every reported count is >= 0.
NaN == -1

\* The maximum or minimum of an empty datetime column (pandas' NaT); every
\* Timestamp of the model is positive.
NaT == 0

\* timedelta(days=1), in the unit of a Timestamp (hours).
Day == 24

\* The date strings of a payload; pd.to_datetime reads the ones of the
\* calendar as midnight of that day and raises on any other.
Calendar == ("2021-01-01" :> 1) @@ ("2021-01-02" :> 2)

DateStrings == DOMAIN Calendar \cup {"not-a-date"}

\* Country names, with their rank in the order sort_values puts strings in.
Collation == ("A" :> 1) @@ ("B" :> 2) @@ ("C" :> 3)

NumericColumns ==
    {"total_cases", "total_deaths", "total_vaccinations", "new_cases", "new_deaths"}

Columns == {"country", "date"} \cup NumericColumns

Row(c, d, m) ==
    [country |-> c, date |-> d,
     total_cases |-> m.total_cases, total_deaths |-> m.total_deaths,
     total_vaccinations |-> m.total_vaccinations,
     new_cases |-> m.new_cases, new_deaths |-> m.new_deaths]

Metrics(tc, td, tv, nc, nd) ==
    [total_cases |-> tc, total_deaths |-> td, total_vaccinations |-> tv,
     new_cases |-> nc, new_deaths |-> nd]

(***************************************************************************)
(* load_data.                                                              *)
(***************************************************************************)
None == [kind |-> "None", rows |-> <<>>]

DataFrame(rows) == [kind |-> "DataFrame", rows |-> rows]

\* pd.to_datetime on one date string.
ToDatetime(s) == Calendar[s] * Day

ParseDates(rows) ==
    [i \in 1..Len(rows) |-> [rows[i] EXCEPT !.date = ToDatetime(rows[i].date)]]

\* The order of sort_values(['country', 'date']).
KeyLeq(a, b) ==
    \/ Collation[a.country] < Collation[b.country]
    \/ a.country = b.country /\ a.date <= b.date

\* r put behind the rows of the sorted frame t that do not come after it.
InsertRow(t, r) ==
    LET k == Cardinality({i \in 1..Len(t) : KeyLeq(t[i], r)})
    IN  SubSeq(t, 1, k) \o <<r>> \o SubSeq(t, k + 1, Len(t))

RECURSIVE SortValues(_)
SortValues(rows) ==
    IF rows = <<>> THEN <<>>
    ELSE InsertRow(SortValues(SubSeq(rows, 1, Len(rows) - 1)), rows[Len(rows)])

\* A load_data that returns the frame without filling it.
FillNaRowSkipped(r) == r

\* df[numeric_columns].fillna(0) on one row.
FillNaRow(r) ==
    [c \in DOMAIN r |-> IF c \in NumericColumns /\ r[c] = NaN THEN 0 ELSE r[c]]

FillNa(rows) == [i \in 1..Len(rows) |-> FillNaRow(rows[i])]

\* The exception raised inside load_data's try block, "" when none.
LoadException(payload) ==
    IF payload.fetch # "ok" THEN payload.fetch
    ELSE IF \E i \in 1..Len(payload.rows) : payload.rows[i].date \notin DOMAIN Calendar
         THEN "ValueError"
         ELSE ""

load_data(payload) ==
    IF LoadException(payload) # ""
    THEN [df |-> None, error |-> "Error loading data: " \o LoadException(payload)]
    ELSE [df |-> DataFrame(FillNa(SortValues(ParseDates(payload.rows)))), error |-> ""]


(***************************************************************************)
(* Column operations shared by the functions below.                        *)
(***************************************************************************)
\* The members of a set of integers, ascending.
RECURSIVE Ascending(_)
Ascending(S) ==
    IF S = {} THEN <<>>
    ELSE LET least == CHOOSE d \in S : \A e \in S : d <= e
         IN  <<least>> \o Ascending(S \ {least})

\* df[mask]: the rows at the positions where the mask is True, in their
\* order.
SelectRows(rows, mask) ==
    LET kept == Ascending(mask)
    IN  [k \in 1..Len(kept) |-> rows[kept[k]]]

\* Series.sum(): missing cells are skipped, an empty column sums to 0.
RECURSIVE ColumnSum(_, _)
ColumnSum(rows, col) ==
    IF rows = <<>> THEN 0
    ELSE ColumnSum(Tail(rows), col)
         + (IF Head(rows)[col] = NaN THEN 0 ELSE Head(rows)[col])

\* df['date'].max() and df['date'].min(): NaT on an empty frame.
DateMax(rows) ==
    IF rows = <<>> THEN NaT
    ELSE CHOOSE d \in {rows[i].date : i \in 1..Len(rows)} :
             \A i \in 1..Len(rows) : rows[i].date <= d

DateMin(rows) ==
    IF rows = <<>> THEN NaT
    ELSE CHOOSE d \in {rows[i].date : i \in 1..Len(rows)} :
             \A i \in 1..Len(rows) : d <= rows[i].date

\* df['date'] == d on one row: nothing equals NaT.
DateIs(r, d) == d # NaT /\ r.date # NaT /\ r.date = d

\* df[df['date'] == df['date'].max()]
LatestData(rows) == SelectRows(rows, {i \in 1..Len(rows) : DateIs(rows[i], DateMax(rows))})

(***************************************************************************)
(* calculate_global_stats.                                                 *)
(***************************************************************************)
\* A calculate_global_stats that sums the whole frame, not the latest date.
calculate_global_stats_all_dates(rows) ==
    [total_cases        |-> ColumnSum(rows, "total_cases"),
     total_deaths       |-> ColumnSum(rows, "total_deaths"),
     total_vaccinations |-> ColumnSum(rows, "total_vaccinations"),
     new_cases          |-> ColumnSum(rows, "new_cases"),
     new_deaths         |-> ColumnSum(rows, "new_deaths"),
     latest_date        |-> DateMax(rows)]

calculate_global_stats(rows) ==
    LET latest_date == DateMax(rows)
        latest_data == SelectRows(rows, {i \in 1..Len(rows) : DateIs(rows[i], latest_date)})
    IN  [total_cases        |-> ColumnSum(latest_data, "total_cases"),
         total_deaths       |-> ColumnSum(latest_data, "total_deaths"),
         total_vaccinations |-> ColumnSum(latest_data, "total_vaccinations"),
         new_cases          |-> ColumnSum(latest_data, "new_cases"),
         new_deaths         |-> ColumnSum(latest_data, "new_deaths"),
         latest_date        |-> latest_date]

(***************************************************************************)
(* create_global_trend_chart: the table global_daily it plots.             *)
(***************************************************************************)
\* An aggregation that sums a date's first row only.
GroupSumsFirstRow(rows, d) ==
    LET group == SelectRows(rows, {i \in 1..Len(rows) : rows[i].date = d})
    IN  [date         |-> d,
         new_cases    |-> group[1].new_cases,
         new_deaths   |-> group[1].new_deaths,
         total_cases  |-> group[1].total_cases,
         total_deaths |-> group[1].total_deaths]

GroupSums(rows, d) ==
    LET group == SelectRows(rows, {i \in 1..Len(rows) : rows[i].date = d})
    IN  [date         |-> d,
         new_cases    |-> ColumnSum(group, "new_cases"),
         new_deaths   |-> ColumnSum(group, "new_deaths"),
         total_cases  |-> ColumnSum(group, "total_cases"),
         total_deaths |-> ColumnSum(group, "total_deaths")]

create_global_trend_chart(rows) ==
    \* the group keys of groupby('date'), ascending
    LET keys == Ascending({rows[i].date : i \in 1..Len(rows)})
    IN  [k \in 1..Len(keys) |-> GroupSums(rows, keys[k])]

(***************************************************************************)
(* create_country_comparison_chart: the table country_data it plots.       *)
(***************************************************************************)
create_country_comparison_chart(rows, countries) ==
    SelectRows(rows, {i \in 1..Len(rows) : rows[i].country \in countries})

(***************************************************************************)
(* DataFrame.nlargest(n, column), keep='first'.                            *)
(***************************************************************************)
RECURSIVE Gcd(_, _)
Gcd(a, b) == IF b = 0 THEN a ELSE Gcd(b, a % b)

\* A float quotient as the exact ratio num/den in lowest terms: division
\* and multiplication are correctly rounded and monotone, so two cells
\* compare on the float as they do on the ratio, and are equal floats when
\* they are the same ratio.  0/0 stands for NaN.
Ratio(n, d) ==
    IF d = 0 THEN [num |-> 0, den |-> 0]
    ELSE [num |-> n \div Gcd(n, d), den |-> d \div Gcd(n, d)]

NaNRatio == Ratio(0, 0)

\* a > b on two cells of a column; the cfr column holds ratios.
CellGt(col, a, b) ==
    IF col = "cfr" THEN a.num * b.den > b.num * a.den ELSE a > b

\* A ranking that puts r ahead of the rows it ties with.
RankInsertAheadOfTies(t, r, col) ==
    LET k == Cardinality({i \in 1..Len(t) : CellGt(col, t[i][col], r[col])})
    IN  SubSeq(t, 1, k) \o <<r>> \o SubSeq(t, k + 1, Len(t))

\* r put behind the rows of the ranked frame t that it does not exceed.
RankInsert(t, r, col) ==
    LET k == Cardinality({i \in 1..Len(t) : ~CellGt(col, r[col], t[i][col])})
    IN  SubSeq(t, 1, k) \o <<r>> \o SubSeq(t, k + 1, Len(t))

\* The stable (mergesort) descending order nlargest ranks the rows in.
RECURSIVE RankDescending(_, _)
RankDescending(rows, col) ==
    IF rows = <<>> THEN <<>>
    ELSE RankInsert(RankDescending(SubSeq(rows, 1, Len(rows) - 1), col),
                    rows[Len(rows)], col)

\* An nlargest that ranks the rows and keeps them all.
nlargest_untruncated(n, rows, col) == RankDescending(rows, col)

nlargest(n, rows, col) ==
    SubSeq(RankDescending(rows, col), 1, IF n < Len(rows) THEN n ELSE Len(rows))

(***************************************************************************)
(* create_top_countries_chart: the table top_countries it plots.           *)
(***************************************************************************)
DefaultTopN == 15

Returned(v) == [outcome |-> "returned", value |-> v, exception |-> ""]

Raised(e) == [outcome |-> "raised", value |-> <<>>, exception |-> e]

\* frame[['country', metric]]
CountryAnd(rows, metric) ==
    [i \in 1..Len(rows) |-> [country |-> rows[i].country, value |-> rows[i][metric]]]

create_top_countries_chart(rows, metric, top_n) ==
    LET latest_data == LatestData(rows)
    IN  IF metric \notin Columns
        THEN Raised("KeyError")
        ELSE Returned(CountryAnd(nlargest(top_n, latest_data, metric), metric))

(***************************************************************************)
(* create_vaccination_chart: the table top_vacc it plots, or None.         *)
(***************************************************************************)
VaccTopN == 20

create_vaccination_chart(rows) ==
    LET vacc_data == SelectRows(rows, {i \in 1..Len(rows) : rows[i].total_vaccinations > 0})
    IN  IF vacc_data = <<>>
        THEN None
        ELSE DataFrame(nlargest(VaccTopN, LatestData(vacc_data), "total_vaccinations"))

(***************************************************************************)
(* create_case_fatality_rate_chart: the table top_cfr it plots.            *)
(***************************************************************************)
CfrMinCases == 1000

CfrTopN == 20

\* (total_deaths / total_cases) * 100 on one row with total_cases > 0.
Cfr(r) ==
    IF r.total_deaths = NaN THEN NaNRatio
    ELSE Ratio(r.total_deaths * 100, r.total_cases)

WithCfr(r) ==
    [c \in DOMAIN r \cup {"cfr"} |-> IF c = "cfr" THEN Cfr(r) ELSE r[c]]

\* A threshold test that lets total_cases = 1000 through.
AtOrOverThreshold(r) == r.total_cases >= CfrMinCases

\* latest_data[latest_data['total_cases'] > 1000]
OverThreshold(r) == r.total_cases > CfrMinCases

create_case_fatality_rate_chart(rows) ==
    LET latest      == LatestData(rows)
        latest_data == SelectRows(latest, {i \in 1..Len(latest) : OverThreshold(latest[i])})
        rated       == [i \in 1..Len(latest_data) |-> WithCfr(latest_data[i])]
        defined     == SelectRows(rated, {i \in 1..Len(rated) : rated[i].cfr # NaNRatio})
    IN  nlargest(CfrTopN, defined, "cfr")

(***************************************************************************)
(* The pieces main() computes inline.                                      *)
(***************************************************************************)
\* Series.dt.date and Timestamp.date(): the calendar day of a Timestamp.
DtDate(ts) == ts \div Day

DefaultWindowDays == 90

\* What st.sidebar.date_input can return between min_value and max_value:
\* the default it is constructed with, a picked range, or the one date of
\* a range whose end is not picked yet.
DateInputs(min_date, max_date) ==
    {<<max_date - DefaultWindowDays, max_date>>}
    \cup UNION {{<<s, e>> : e \in s..max_date} : s \in min_date..max_date}
    \cup {<<s>> : s \in min_date..max_date}

\* A date filter whose end bound is exclusive.
InRangeEndExclusive(r, start_date, end_date) ==
    DtDate(r.date) >= start_date /\ DtDate(r.date) < end_date

InRange(r, start_date, end_date) ==
    DtDate(r.date) >= start_date /\ DtDate(r.date) <= end_date

\* main's "Filter data by date range".
FilterByDateRange(rows, range) ==
    IF Len(range) = 2
    THEN SelectRows(rows, {i \in 1..Len(rows) : InRange(rows[i], range[1], range[2])})
    ELSE rows

\* df['country'].unique(), the options of the multiselect.
CountriesOf(rows) == {rows[i].country : i \in 1..Len(rows)}

\* df.to_csv(index=False): the rows in index order, dates written back as
\* text.
FormatDate(ts) == CHOOSE s \in DOMAIN Calendar : Calendar[s] * Day = ts

to_csv(rows) ==
    [i \in 1..Len(rows) |-> [rows[i] EXCEPT !.date = FormatDate(rows[i].date)]]

\* A main() that does not look at what load_data returned.
IsNoneUnchecked(d) == FALSE

\* main's "if df is None".
IsNone(d) == d.kind = "None"

(***************************************************************************)
(* Inputs.                                                                 *)
(***************************************************************************)
SeqsUpTo(S, n) == UNION {[1..k -> S] : k \in 0..n}

\* Payloads of the render cycle: a CSV of at most MaxRows rows whose date
\* may not parse and whose counts may be missing, or a read_csv that raises.
RawReadings ==
    {Metrics(5000, 100, 700, 30, 2), Metrics(2000, 40, NaN, NaN, NaN)}

RawRows == {Row(c, d, m) : c \in {"A", "B"}, d \in DateStrings, m \in RawReadings}

ReadCsvErrors == {"URLError", "EmptyDataError", "ParserError"}

Payloads ==
    {[fetch |-> "ok", rows |-> s] : s \in SeqsUpTo(RawRows, MaxRows)}
    \cup {[fetch |-> e, rows |-> <<>>] : e \in ReadCsvErrors}

\* Datasets of the function calls: what load_data can return, at most
\* MaxRows rows sorted by (country, date) with no missing count.
Readings ==
    {Metrics(5000, 100, 700, 30, 2), Metrics(500, 50, 0, 10, 1),
     Metrics(10000, 50, 900, 20, 0), Metrics(1000, 10, 0, 5, 3),
     Metrics(2000, 3000, 40, 8, 4)}

DatasetRows ==
    {Row(c, ToDatetime(d), m) : c \in DOMAIN Collation, d \in DOMAIN Calendar,
                                m \in Readings}

Datasets ==
    {s \in SeqsUpTo(DatasetRows, MaxRows) :
        \A i, j \in 1..Len(s) : i < j => KeyLeq(s[i], s[j])}

MetricNames == NumericColumns \cup {"total_recoveries"}

NoCall == [fn |-> "", metric |-> "", top_n |-> 0, countries |-> {}]

\* A local of main() that is not assigned yet.
Unset == <<>>

\* vacc_fig before create_vaccination_chart has returned.
NoFigure == [kind |-> "unset", rows |-> <<>>]

\* No call has ended yet.
NoResult == [outcome |-> "pending", value |-> <<>>, exception |-> ""]

(***************************************************************************)
(* The render cycle of main().                                             *)
(***************************************************************************)
Init ==
    /\ pc = "load"
    /\ raw \in Payloads
    /\ df = None
    /\ st_error = <<>>
    /\ uncaught = ""
    /\ executed = <<>>
    /\ date_range = Unset
    /\ df_filtered = Unset
    /\ selected_countries = {}
    /\ global_stats = Unset
    /\ global_daily = Unset
    /\ country_data = Unset
    /\ top_cases = Unset
    /\ top_deaths = Unset
    /\ vacc_fig = NoFigure
    /\ top_cfr = Unset
    /\ csv = Unset
    /\ call = NoCall
    /\ result = NoResult

\* A step of main() from one position to the next.
Step(from, name, to) ==
    /\ pc = from
    /\ pc' = to
    /\ executed' = Append(executed, name)
    /\ UNCHANGED <<raw, call, result>>

\* df = load_data(): the except branch shows the error and returns None.
LoadData ==
    /\ Step("load", "load_data", "check")
    /\ df' = load_data(raw).df
    /\ st_error' = IF load_data(raw).error = "" THEN st_error
                   ELSE Append(st_error, load_data(raw).error)
    /\ UNCHANGED <<uncaught, date_range, df_filtered, selected_countries,
                   global_stats, global_daily, country_data, top_cases,
                   top_deaths, vacc_fig, top_cfr, csv>>

\* if df is None: st.stop()
CheckLoaded ==
    /\ pc = "check"
    /\ pc' = IF IsNone(df) THEN "stopped" ELSE "date_input"
    /\ UNCHANGED <<raw, df, st_error, uncaught, executed, date_range,
                   df_filtered, selected_countries, global_stats, global_daily,
                   country_data, top_cases, top_deaths, vacc_fig, top_cfr, csv,
                   call, result>>

\* min_date, max_date and the date range selector; NaT.date() raises
\* ValueError when the frame has no row.
DateInput ==
    /\ pc = "date_input"
    /\ df.rows # <<>>
    /\ \E picked \in DateInputs(DtDate(DateMin(df.rows)), DtDate(DateMax(df.rows))) :
           date_range' = picked
    /\ Step("date_input", "date_input", "filter")
    /\ UNCHANGED <<df, st_error, uncaught, df_filtered, selected_countries,
                   global_stats, global_daily, country_data, top_cases,
                   top_deaths, vacc_fig, top_cfr, csv>>

DateInputRaises ==
    /\ pc = "date_input"
    /\ df.rows = <<>>
    /\ uncaught' = "ValueError"
    /\ Step("date_input", "date_input", "crashed")
    /\ UNCHANGED <<df, st_error, date_range, df_filtered, selected_countries,
                   global_stats, global_daily, country_data, top_cases,
                   top_deaths, vacc_fig, top_cfr, csv>>

FilterByDate ==
    /\ Step("filter", "date_filter", "countries")
    /\ df_filtered' = FilterByDateRange(df.rows, date_range)
    /\ UNCHANGED <<df, st_error, uncaught, date_range, selected_countries,
                   global_stats, global_daily, country_data, top_cases,
                   top_deaths, vacc_fig, top_cfr, csv>>

\* The country multiselect: any of the frame's countries.
SelectCountries ==
    /\ Step("countries", "multiselect", "stats")
    /\ selected_countries' \in SUBSET CountriesOf(df.rows)
    /\ UNCHANGED <<df, st_error, uncaught, date_range, df_filtered,
                   global_stats, global_daily, country_data, top_cases,
                   top_deaths, vacc_fig, top_cfr, csv>>

GlobalStatistics ==
    /\ Step("stats", "calculate_global_stats", "trend")
    /\ global_stats' = calculate_global_stats(df.rows)
    /\ UNCHANGED <<df, st_error, uncaught, date_range, df_filtered,
                   selected_countries, global_daily, country_data, top_cases,
                   top_deaths, vacc_fig, top_cfr, csv>>

GlobalTrends ==
    /\ Step("trend", "create_global_trend_chart", "comparison")
    /\ global_daily' = create_global_trend_chart(df_filtered)
    /\ UNCHANGED <<df, st_error, uncaught, date_range, df_filtered,
                   selected_countries, global_stats, country_data, top_cases,
                   top_deaths, vacc_fig, top_cfr, csv>>

\* if selected_countries: the comparison chart of the filtered frame.
CountryComparison ==
    /\ selected_countries # {}
    /\ Step("comparison", "create_country_comparison_chart", "top_cases")
    /\ country_data' = create_country_comparison_chart(df_filtered, selected_countries)
    /\ UNCHANGED <<df, st_error, uncaught, date_range, df_filtered,
                   selected_countries, global_stats, global_daily, top_cases,
                   top_deaths, vacc_fig, top_cfr, csv>>

SkipComparison ==
    /\ selected_countries = {}
    /\ pc = "comparison"
    /\ pc' = "top_cases"
    /\ UNCHANGED <<raw, df, st_error, uncaught, executed, date_range,
                   df_filtered, selected_countries, global_stats, global_daily,
                   country_data, top_cases, top_deaths, vacc_fig, top_cfr, csv,
                   call, result>>

TopCases ==
    /\ Step("top_cases", "create_top_countries_chart", "top_deaths")
    /\ top_cases' = create_top_countries_chart(df.rows, "total_cases", DefaultTopN).value
    /\ UNCHANGED <<df, st_error, uncaught, date_range, df_filtered,
                   selected_countries, global_stats, global_daily, country_data,
                   top_deaths, vacc_fig, top_cfr, csv>>

TopDeaths ==
    /\ Step("top_deaths", "create_top_countries_chart", "vaccination")
    /\ top_deaths' = create_top_countries_chart(df.rows, "total_deaths", DefaultTopN).value
    /\ UNCHANGED <<df, st_error, uncaught, date_range, df_filtered,
                   selected_countries, global_stats, global_daily, country_data,
                   top_cases, vacc_fig, top_cfr, csv>>

VaccinationAnalysis ==
    /\ Step("vaccination", "create_vaccination_chart", "cfr")
    /\ vacc_fig' = create_vaccination_chart(df.rows)
    /\ UNCHANGED <<df, st_error, uncaught, date_range, df_filtered,
                   selected_countries, global_stats, global_daily, country_data,
                   top_cases, top_deaths, top_cfr, csv>>

CaseFatalityRate ==
    /\ Step("cfr", "create_case_fatality_rate_chart", "explorer")
    /\ top_cfr' = create_case_fatality_rate_chart(df.rows)
    /\ UNCHANGED <<df, st_error, uncaught, date_range, df_filtered,
                   selected_countries, global_stats, global_daily, country_data,
                   top_cases, top_deaths, vacc_fig, csv>>

\* The data explorer and its download button.
DataExplorer ==
    /\ Step("explorer", "to_csv", "done")
    /\ csv' = to_csv(df.rows)
    /\ UNCHANGED <<df, st_error, uncaught, date_range, df_filtered,
                   selected_countries, global_stats, global_daily, country_data,
                   top_cases, top_deaths, vacc_fig, top_cfr>>

Next ==
    \/ LoadData
    \/ CheckLoaded
    \/ DateInput
    \/ DateInputRaises
    \/ FilterByDate
    \/ SelectCountries
    \/ GlobalStatistics
    \/ GlobalTrends
    \/ CountryComparison
    \/ SkipComparison
    \/ TopCases
    \/ TopDeaths
    \/ VaccinationAnalysis
    \/ CaseFatalityRate
    \/ DataExplorer

Spec == Init /\ [][Next]_vars

(***************************************************************************)
(* One call of one function on a loaded Dataset.                           *)
(***************************************************************************)
InitCalls ==
    /\ pc = "call"
    /\ raw = [fetch |-> "ok", rows |-> <<>>]
    /\ df \in {DataFrame(s) : s \in Datasets}
    /\ st_error = <<>>
    /\ uncaught = ""
    /\ executed = <<>>
    /\ date_range = Unset
    /\ df_filtered = Unset
    /\ selected_countries = {}
    /\ global_stats = Unset
    /\ global_daily = Unset
    /\ country_data = Unset
    /\ top_cases = Unset
    /\ top_deaths = Unset
    /\ vacc_fig = NoFigure
    /\ top_cfr = Unset
    /\ csv = Unset
    /\ call = NoCall
    /\ result = NoResult

\* The call made and how it ended.
Called(fn, metric, top_n, countries, outcome) ==
    /\ pc = "call"
    /\ pc' = "returned"
    /\ call' = [fn |-> fn, metric |-> metric, top_n |-> top_n, countries |-> countries]
    /\ result' = outcome
    /\ UNCHANGED <<raw, df, st_error, uncaught, executed, date_range,
                   df_filtered, selected_countries, global_stats, global_daily,
                   country_data, top_cases, top_deaths, vacc_fig, top_cfr, csv>>

CallGlobalStats ==
    Called("calculate_global_stats", "", 0, {},
           Returned(calculate_global_stats(df.rows)))

CallGlobalTrend ==
    Called("create_global_trend_chart", "", 0, {},
           Returned(create_global_trend_chart(df.rows)))

CallCountryComparison ==
    \E countries \in SUBSET CountriesOf(df.rows) :
        Called("create_country_comparison_chart", "", 0, countries,
               Returned(create_country_comparison_chart(df.rows, countries)))

CallTopCountries ==
    \E metric \in MetricNames, top_n \in 1..MaxTopN :
        Called("create_top_countries_chart", metric, top_n, {},
               create_top_countries_chart(df.rows, metric, top_n))

CallVaccination ==
    Called("create_vaccination_chart", "", 0, {},
           Returned(create_vaccination_chart(df.rows)))

CallCaseFatalityRate ==
    Called("create_case_fatality_rate_chart", "", 0, {},
           Returned(create_case_fatality_rate_chart(df.rows)))

NextCalls ==
    \/ CallGlobalStats
    \/ CallGlobalTrend
    \/ CallCountryComparison
    \/ CallTopCountries
    \/ CallVaccination
    \/ CallCaseFatalityRate

SpecCalls == InitCalls /\ [][NextCalls]_vars

(***************************************************************************)
(* What the properties below are stated with: sums and ranks computed over *)
(* row positions, not by the operators of the model.                       *)
(***************************************************************************)
Ran(name) == \E k \in 1..Len(executed) : executed[k] = name

Positions(rows) == 1..Len(rows)

DatesOf(rows) == {rows[i].date : i \in Positions(rows)}

\* The positions of the rows dated d.
At(rows, d) == {i \in Positions(rows) : rows[i].date = d}

\* The latest date of a frame that has a row.
Latest(rows) == CHOOSE d \in DatesOf(rows) : \A e \in DatesOf(rows) : e <= d

\* The sum of column col over the rows at the positions I, a missing cell
\* counting 0.
RECURSIVE SumAt(_, _, _)
SumAt(rows, I, col) ==
    IF I = {} THEN 0
    ELSE LET i == CHOOSE j \in I : TRUE
         IN  (IF rows[i][col] = NaN THEN 0 ELSE rows[i][col])
             + SumAt(rows, I \ {i}, col)

Least(a, b) == IF a < b THEN a ELSE b

\* The rows at the positions I that rank ahead of the row at position i:
\* a larger cell, or an equal cell earlier in the frame.
Ahead(rows, I, i, col) ==
    {j \in I : \/ CellGt(col, rows[j][col], rows[i][col])
               \/ /\ ~CellGt(col, rows[i][col], rows[j][col])
                  /\ j < i}

TopCall == call.fn = "create_top_countries_chart" /\ call.metric \in NumericColumns

(***************************************************************************)
(* C1.  For every non-empty Dataset, calculate_global_stats returns        *)
(* latest_date equal to the maximum date present, and each of total_cases, *)
(* total_deaths, total_vaccinations, new_cases and new_deaths equal to the *)
(* sum of that column over exactly the rows dated latest_date.             *)
(***************************************************************************)
C1_GlobalStatsSumLatestDate ==
    (call.fn = "calculate_global_stats" /\ df.rows # <<>>) =>
        /\ result.outcome = "returned"
        /\ result.value.latest_date = Latest(df.rows)
        /\ \A col \in NumericColumns :
               result.value[col] = SumAt(df.rows, At(df.rows, Latest(df.rows)), col)

\* A snapshot of two rows at the latest date, with an earlier row left out.
C1_Witness ==
    /\ call.fn = "calculate_global_stats"
    /\ Cardinality(At(df.rows, Latest(df.rows))) = 2
    /\ Len(df.rows) = 3
    /\ result.value.total_cases
           < SumAt(df.rows, Positions(df.rows), "total_cases")

(***************************************************************************)
(* C2.  On a Dataset of zero rows calculate_global_stats fails with an     *)
(* EmptyDataset error; it never returns a snapshot whose metrics are all   *)
(* zero.                                                                   *)
(***************************************************************************)
C2_EmptyDatasetFails ==
    (call.fn = "calculate_global_stats" /\ df.rows = <<>>) =>
        /\ result.outcome = "raised"
        /\ result.exception = "EmptyDataset"

(***************************************************************************)
(* C3.  If the loader fails (read_csv or the parsing raises), the render   *)
(* cycle is aborted: load_data ran once and nothing ran after it (no date  *)
(* filter, no aggregation, no chart builder, no export), and the failure   *)
(* is shown as one error message.                                          *)
(***************************************************************************)
C3_LoaderFailureAbortsCycle ==
    (pc # "load" /\ LoadException(raw) # "") =>
        /\ pc \in {"check", "stopped"}
        /\ executed = <<"load_data">>
        /\ st_error = <<"Error loading data: " \o LoadException(raw)>>
        /\ uncaught = ""
        /\ date_range = Unset /\ df_filtered = Unset
        /\ global_stats = Unset /\ global_daily = Unset
        /\ country_data = Unset /\ top_cases = Unset /\ top_deaths = Unset
        /\ vacc_fig = NoFigure /\ top_cfr = Unset /\ csv = Unset

\* A cycle stopped on a date that does not parse.
C3_Witness ==
    /\ pc = "stopped"
    /\ LoadException(raw) = "ValueError"
    /\ Len(raw.rows) > 1

(***************************************************************************)
(* C4.  For every Dataset D and date interval [start, end], the filtered   *)
(* view is exactly the rows of D whose date d satisfies start <= d <= end, *)
(* both bounds inclusive, in the same relative order as in D.              *)
(***************************************************************************)
C4_InInterval(i) ==
    /\ date_range[1] * Day <= df.rows[i].date
    /\ df.rows[i].date < (date_range[2] + 1) * Day

C4_DateFilterExact ==
    (Ran("date_filter") /\ Len(date_range) = 2) =>
        LET inside == {i \in Positions(df.rows) : C4_InInterval(i)}
        IN  /\ Len(df_filtered) = Cardinality(inside)
            /\ \A i \in inside :
                   df_filtered[Cardinality({j \in inside : j <= i})] = df.rows[i]

\* A one-day interval that keeps two rows and drops a row between them.
C4_Witness ==
    /\ Ran("date_filter")
    /\ Len(date_range) = 2
    /\ date_range[1] = date_range[2]
    /\ Len(df_filtered) = 2
    /\ Len(df.rows) = 3
    /\ ~C4_InInterval(2)

(***************************************************************************)
(* C5.  For every Dataset D, metric and n, create_top_countries_chart      *)
(* returns exactly min(n, number of rows at the latest date) rows, each of *)
(* them a row at the latest date; a Dataset holds one row per (country,    *)
(* date), so that number is min(n, number of distinct countries having a   *)
(* row at the latest date).                                                *)
(***************************************************************************)
C5_LatestPositions ==
    IF df.rows = <<>> THEN {} ELSE At(df.rows, Latest(df.rows))

C5_LatestCountries == {df.rows[i].country : i \in C5_LatestPositions}

\* One row per (country, date): the key of the Dataset.
C5_UniqueKeys ==
    \A i, j \in Positions(df.rows) :
        (df.rows[i].country = df.rows[j].country /\ df.rows[i].date = df.rows[j].date)
            => i = j

C5_TopNSizeBounded ==
    TopCall =>
        /\ result.outcome = "returned"
        /\ Len(result.value) = Least(call.top_n, Cardinality(C5_LatestPositions))
        /\ C5_UniqueKeys =>
               Len(result.value) = Least(call.top_n, Cardinality(C5_LatestCountries))
        /\ \A k \in 1..Len(result.value) :
               \E i \in C5_LatestPositions :
                   /\ result.value[k].country = df.rows[i].country
                   /\ result.value[k].value = df.rows[i][call.metric]

\* A ranking cut to n rows: three countries at the latest date, n = 2.
C5_Witness ==
    /\ TopCall
    /\ C5_UniqueKeys
    /\ call.top_n = 2
    /\ Cardinality(C5_LatestCountries) = 3
    /\ Len(result.value) = 2

(***************************************************************************)
(* C6.  The ranking orders the rows at the latest date by the metric,      *)
(* descending, and rows tied on the metric keep their relative input       *)
(* order; when a tie straddles the n-th position the tied rows earlier in  *)
(* the input are the ones selected.  The CFR ranking breaks ties the same  *)
(* way.                                                                    *)
(***************************************************************************)
C6_CfrPositions ==
    {i \in C5_LatestPositions : df.rows[i].total_cases > CfrMinCases}

C6_Rated == [i \in Positions(df.rows) |-> WithCfr(df.rows[i])]

C6_RankingStable ==
    /\ TopCall =>
           /\ Len(result.value) = Least(call.top_n, Cardinality(C5_LatestPositions))
           /\ \A i \in C5_LatestPositions :
                  LET ahead == Cardinality(Ahead(df.rows, C5_LatestPositions, i, call.metric))
                  IN  ahead < call.top_n =>
                          /\ result.value[ahead + 1].country = df.rows[i].country
                          /\ result.value[ahead + 1].value = df.rows[i][call.metric]
    /\ call.fn = "create_case_fatality_rate_chart" =>
           /\ Len(result.value) = Least(CfrTopN, Cardinality(C6_CfrPositions))
           /\ \A i \in C6_CfrPositions :
                  LET ahead == Cardinality(Ahead(C6_Rated, C6_CfrPositions, i, "cfr"))
                  IN  ahead < CfrTopN => result.value[ahead + 1] = C6_Rated[i]

\* A tie across the n-th position: the earlier of two tied rows is the last
\* one selected, the later one is left out.
C6_Witness ==
    /\ TopCall
    /\ \E i, j \in C5_LatestPositions :
           /\ i < j
           /\ df.rows[i][call.metric] = df.rows[j][call.metric]
           /\ Cardinality(Ahead(df.rows, C5_LatestPositions, i, call.metric))
                  = call.top_n - 1
           /\ call.top_n > 1
           /\ Len(result.value) = call.top_n
           /\ result.value[call.top_n].country = df.rows[i].country
           /\ df.rows[j].country # df.rows[i].country

(***************************************************************************)
(* C7.  create_case_fatality_rate_chart never returns a row with           *)
(* total_cases <= 1000; every returned row has                             *)
(* cfr = total_deaths / total_cases * 100, which lies in [0, 100] whenever *)
(* 0 <= total_deaths <= total_cases.  With latest-date rows A (5000 cases, *)
(* 100 deaths), B (500, 50), C (10000, 50), only A and C are returned,     *)
(* A (2.0) ranked above C (0.5).                                           *)
(***************************************************************************)
C7_Example ==
    /\ Cardinality(C5_LatestPositions) = 3
    /\ \E a, b, c \in C5_LatestPositions :
           /\ df.rows[a].country = "A" /\ df.rows[a].total_cases = 5000
           /\ df.rows[a].total_deaths = 100
           /\ df.rows[b].country = "B" /\ df.rows[b].total_cases = 500
           /\ df.rows[b].total_deaths = 50
           /\ df.rows[c].country = "C" /\ df.rows[c].total_cases = 10000
           /\ df.rows[c].total_deaths = 50

C8_RawAt(d) == {j \in Positions(raw.rows) : Calendar[raw.rows[j].date] * Day = d}

\* The Dataset row a raw row is loaded as.
C8_Loaded(r) ==
    [c \in Columns |->
        IF c = "date" THEN Calendar[r.date] * Day
        ELSE IF c = "country" THEN r.country
        ELSE IF r[c] = NaN THEN 0 ELSE r[c]]

C8_MissingValuesAreZero ==
    (pc # "load" /\ LoadException(raw) = "") =>
        /\ Len(df.rows) = Len(raw.rows)
        /\ \A i \in Positions(df.rows) :
               /\ \A col \in NumericColumns : df.rows[i][col] # NaN
               /\ \E j \in Positions(raw.rows) : df.rows[i] = C8_Loaded(raw.rows[j])
        /\ Ran("create_global_trend_chart") =>
               \A k \in 1..Len(global_daily) :
                   global_daily[k].new_deaths
                       = SumAt(raw.rows, C8_RawAt(global_daily[k].date), "new_deaths")

\* A date with a raw row whose new_deaths is null and one whose new_deaths
\* is reported, both in the trend.
C8_Witness ==
    /\ Ran("create_global_trend_chart")
    /\ \E k \in 1..Len(global_daily) :
           /\ global_daily[k].new_deaths > 0
           /\ \E i, j \in C8_RawAt(global_daily[k].date) :
                  /\ raw.rows[i].new_deaths = NaN
                  /\ raw.rows[j].new_deaths # NaN

(***************************************************************************)
(* C9.  The global daily trend of create_global_trend_chart has exactly    *)
(* one record per distinct date of its input table, ordered by date        *)
(* ascending, and in each record new_cases, new_deaths, total_cases and    *)
(* total_deaths equal the sum of that column over all input rows of that   *)
(* date; an empty input table yields an empty series, not a failure.       *)
(***************************************************************************)
C9_GlobalTrendPerDate ==
    call.fn = "create_global_trend_chart" =>
        /\ result.outcome = "returned"
        /\ Len(result.value) = Cardinality(DatesOf(df.rows))
        /\ \A k \in 1..Len(result.value) :
               /\ result.value[k].date \in DatesOf(df.rows)
               /\ k > 1 => result.value[k - 1].date < result.value[k].date
               /\ \A col \in {"new_cases", "new_deaths", "total_cases", "total_deaths"} :
                      result.value[k][col]
                          = SumAt(df.rows, At(df.rows, result.value[k].date), col)
        /\ df.rows = <<>> => result.value = <<>>

\* Two dates, the later one first in the Dataset's order for some country
\* pair, and a date with two rows.
C9_Witness ==
    /\ call.fn = "create_global_trend_chart"
    /\ Len(result.value) = 2
    /\ Len(df.rows) = 3
    /\ df.rows[2].date > df.rows[3].date
    /\ df.rows[1].date = df.rows[3].date

(***************************************************************************)
(* C10.  A create_top_countries_chart request whose metric is not a column *)
(* of the Dataset is rejected with an InvalidMetric error: it neither      *)
(* returns an empty result nor ends in an uncaught crash.                  *)
(***************************************************************************)
C10_UnknownMetricRejected ==
    (call.fn = "create_top_countries_chart" /\ call.metric \notin Columns) =>
        /\ result.outcome = "raised"
        /\ result.exception = "InvalidMetric"

=============================================================================
